---- MODULE Spec2Model ----
(***************************************************************************)
(* The cross-site authentication and credit-ledger core of the book        *)
(* network hub (books/views.py over the tables of books/models.py).        *)
(*                                                                         *)
(* Every HTTP request is a process in one of the request slots.  A handler *)
(* is cut into steps at its accesses to the database and to the cache: no  *)
(* handler uses transaction.atomic, select_for_update or a conditional     *)
(* update, so under Django's autocommit every ORM call commits on its own  *)
(* and other requests run between two calls of one handler.  Consecutive   *)
(* reads, and a write with the reads that only feed it, form one step.     *)
(***************************************************************************)
EXTENDS Integers, Sequences, FiniteSets, TLC

\* ------------------------------------------------------------------ bounds
\* Requests admitted in one behaviour of Spec.
MaxOps == 2
\* Requests admitted in one behaviour of SpecHandoff.
MaxHandoffOps == 3
\* Handoff codes that can be issued in one behaviour.
MaxCodes == 2
\* Clock ticks in one behaviour.
MaxTicks == 2

\* ------------------------------------------------------- program constants
WelcomeBonus == 5
ReferralExtra == 5
ReferredTotal == 10
ReferrerBonus == 10
CodeTTL == 300

\* ------------------------------------------------------------ input sets
Slots == {1, 2}
Emails == {"a", "b"}
Passwords == {"p", "q"}
Sites == {"s1", "s2"}
BadKey == "bad"
ApiKeys == Sites \cup {BadKey}
\* The request carries no X-API-Key header.
NoKey == ""
Credentials == ApiKeys \cup {NoKey}
Books == {"b1", "b2"}
Amounts == {3, 6, -3}
Types == {"spent", "earned"}
NoRef == "none"
BogusRef == "bogus"
Tokens == {[sub |-> "g1", email |-> "a"], [sub |-> "g2", email |-> "a"],
           [sub |-> "g1", email |-> "b"]}
\* The token that id_token.verify_oauth2_token rejects with ValueError.
InvalidToken == [sub |-> "", email |-> ""]
Codes == 1..MaxCodes
\* Seconds by which one tick advances the clock.
TickStep == CodeTTL \div 2
\* Password marker of a user created with set_unusable_password().
Unusable == "!"

VARIABLES users, profiles, ledger, activity, userBooks, siteActive, bookCost,
          cache, nextCode, now, ticks, req, left

dbVars == <<users, profiles, ledger, activity, userBooks>>
vars == <<users, profiles, ledger, activity, userBooks, siteActive, bookCost,
          cache, nextCode, now, ticks, req, left>>

\* ------------------------------------------------------------- the tables
NoUser == [exists |-> FALSE, password |-> ""]
NoProfile == [exists |-> FALSE, google_id |-> "", credits |-> 0,
              total_credits_earned |-> 0, total_credits_spent |-> 0,
              referred_by |-> NoRef]
NoEntry == [present |-> FALSE, user_id |-> "", target_site_id |-> "", expires_at |-> 0]
IdleReq == [op |-> "", pc |-> "idle", user |-> "", site |-> "", password |-> "",
            amount |-> 0, type |-> "", ref |-> "", referrer |-> NoProfile,
            code |-> 0, book |-> "", profile |-> NoProfile, count |-> 0,
            tok |-> InvalidToken,
            is_new |-> FALSE, seen |-> 0, raced |-> FALSE, res |-> ""]

abs(n) == IF n < 0 THEN -n ELSE n

\* BookSite.objects.get(api_key=key, is_active=True) finds a row.
Mutant_SiteValid(key) == key \in Sites
SiteValid(key) == key \in Sites /\ siteActive[key]

\* Slot r takes the next request: the slots are interchangeable, so a request
\* goes to the lowest slot that holds no running request.
Free(r) ==
    /\ left > 0
    /\ req[r].pc \in {"idle", "done"}
    /\ \A x \in Slots : x < r => req[x].pc \notin {"idle", "done"}

\* The request of slot r ends with response res; the handler's locals go.
Respond(r, fields, res) ==
    req' = [req EXCEPT ![r] = [fields EXCEPT !.pc = "done", !.res = res,
                                             !.profile = NoProfile,
                                             !.referrer = NoProfile,
                                             !.count = 0, !.book = ""]]

NewReq(op, u, key) ==
    [IdleReq EXCEPT !.op = op, !.user = u, !.site = key]

\* The requests of the other slots that stand between their read and their
\* write of the row that the request of slot r reads now.
Pending(r, op, pc, u, code) ==
    {q \in Slots \ {r} : /\ req[q].op = op /\ req[q].pc = pc
                          /\ req[q].user = u /\ req[q].code = code}

\* req with the request q in slot r; when q reads a row that a pending request
\* has read and not yet written, both are marked as racing (raced, like seen,
\* the balance that update_credits read, is a history field: no handler
\* reads it).
Admit(r, q, peers) ==
    [x \in Slots |-> IF x = r THEN [q EXCEPT !.raced = (peers # {})]
                     ELSE IF x \in peers THEN [req[x] EXCEPT !.raced = TRUE]
                     ELSE req[x]]

\* The tables of a new deployment: the sites and books that the administrator
\* registered, and no account.
EmptyTables ==
    /\ users = [e \in Emails |-> NoUser]
    /\ profiles = [e \in Emails |-> NoProfile]
    /\ ledger = [e \in Emails |-> <<>>]
    /\ activity = [e \in Emails |-> [s \in Sites |-> 0]]

\* The tables after the first password login, of "a" through site "s1" with
\* no referral code: the state that distributed_login .. distributed_login_activity
\* reach from EmptyTables.
SeededTables ==
    /\ users = [e \in Emails |->
                  IF e = "a" THEN [exists |-> TRUE, password |-> "p"] ELSE NoUser]
    /\ profiles = [e \in Emails |->
                  IF e = "a" THEN [NoProfile EXCEPT !.exists = TRUE,
                                       !.credits = WelcomeBonus,
                                       !.total_credits_earned = WelcomeBonus]
                  ELSE NoProfile]
    /\ ledger = [e \in Emails |->
                  IF e = "a" THEN <<[type |-> "welcome_bonus", amount |-> WelcomeBonus]>>
                  ELSE <<>>]
    /\ activity = [e \in Emails |-> [s \in Sites |->
                  IF e = "a" /\ s = "s1" THEN 1 ELSE 0]]

InitTables ==
    /\ EmptyTables \/ SeededTables
    /\ userBooks = [e \in Emails |-> [b \in Books |-> -1]]
    /\ siteActive = [s \in Sites |-> TRUE]
    /\ bookCost = [b \in Books |-> IF b = "b1" THEN 1 ELSE 6]
    /\ cache = [c \in Codes |-> NoEntry]
    /\ nextCode = 1
    /\ now = 0
    /\ ticks = 0
    /\ req = [r \in Slots |-> IdleReq]

Init == InitTables /\ left = MaxOps

\* ------------------------------------------------------- update_credits
\* The local profile object after lines 54-61.
Mutant_ApplyCredits(p, type, amount) ==
    IF type = "spent"
    THEN [p EXCEPT !.credits = @ - abs(amount)]
    ELSE [p EXCEPT !.credits = @ + abs(amount),
                   !.total_credits_earned = @ + abs(amount)]
ApplyCredits(p, type, amount) ==
    IF type = "spent"
    THEN [p EXCEPT !.credits = @ - abs(amount),
                   !.total_credits_spent = @ + abs(amount)]
    ELSE [p EXCEPT !.credits = @ + abs(amount),
                   !.total_credits_earned = @ + abs(amount)]

\* The spend is refused (line 55).
Mutant_Insufficient(p, type, amount) == type = "spent" /\ p.credits + 1 < abs(amount)
Insufficient(p, type, amount) == type = "spent" /\ p.credits < abs(amount)

\* Lines 39-56: the site lookup, the profile read and the balance check.
update_credits(r, u, key, amount, type) ==
    /\ Free(r)
    /\ users[u].exists
    /\ left' = left - 1
    /\ LET q == [NewReq("update_credits", u, key) EXCEPT
                    !.amount = amount, !.type = type]
       IN  IF key = NoKey THEN Respond(r, q, "KeyRequired")
           ELSE IF ~SiteValid(key) THEN Respond(r, q, "InvalidSite")
           ELSE IF ~profiles[u].exists THEN Respond(r, q, "ServerError")
           ELSE IF Insufficient(profiles[u], type, amount)
                THEN Respond(r, q, "InsufficientBalance")
           ELSE req' = Admit(r, [q EXCEPT !.pc = "uc_save",
                                   !.seen = profiles[u].credits,
                                   !.profile = ApplyCredits(profiles[u], type, amount)],
                             Pending(r, "update_credits", "uc_save", u, 0))
    /\ UNCHANGED <<dbVars, siteActive, bookCost, cache, nextCode, now, ticks>>

\* Line 63: profile.save() writes every field of the local object.
update_credits_save(r) ==
    /\ req[r].pc = "uc_save"
    /\ profiles' = [profiles EXCEPT ![req[r].user] = req[r].profile]
    /\ req' = [req EXCEPT ![r].pc = "uc_log"]
    /\ UNCHANGED <<users, ledger, activity, userBooks, siteActive, bookCost,
                   cache, nextCode, now, ticks, left>>

\* Lines 66-77: the CreditTransaction row, with the amount as the caller sent it.
update_credits_log(r) ==
    /\ req[r].pc = "uc_log"
    /\ ledger' = [ledger EXCEPT ![req[r].user] =
                    Append(@, [type |-> req[r].type, amount |-> req[r].amount])]
    /\ Respond(r, req[r], "ok")
    /\ UNCHANGED <<users, profiles, activity, userBooks, siteActive, bookCost,
                   cache, nextCode, now, ticks, left>>

\* ------------------------------------------------- site activity tracking
\* get_or_create(user, site, defaults={'total_visits': 1}) of lines 147-151,
\* 371-375 and 474-478: a new row ends the handler, an existing row is
\* incremented by the save that follows.
TrackVisit(r, q, u, s) ==
    IF activity[u][s] = 0
    THEN /\ activity' = [activity EXCEPT ![u][s] = 1]
         /\ Respond(r, [q EXCEPT !.user = u, !.site = s], "ok")
    ELSE /\ activity' = activity
         /\ req' = [req EXCEPT ![r] = [q EXCEPT !.pc = "act_save", !.user = u,
                                                !.site = s,
                                                !.count = activity[u][s]]]

\* Lines 152-154 (376-378, 479-481): activity.total_visits += 1; activity.save().
Mutant_activity_save(r) ==
    /\ req[r].pc = "act_save"
    /\ activity' = [activity EXCEPT ![req[r].user][req[r].site] = req[r].count]
    /\ Respond(r, req[r], "ok")
    /\ UNCHANGED <<users, profiles, ledger, userBooks, siteActive, bookCost,
                   cache, nextCode, now, ticks, left>>
activity_save(r) ==
    /\ req[r].pc = "act_save"
    /\ activity' = [activity EXCEPT ![req[r].user][req[r].site] = req[r].count + 1]
    /\ Respond(r, req[r], "ok")
    /\ UNCHANGED <<users, profiles, ledger, userBooks, siteActive, bookCost,
                   cache, nextCode, now, ticks, left>>

\* ------------------------------------------------------ account provisioning
\* The referral codes a caller can present: none, one that resolves to no
\* profile, or the code of a profile that exists (a code is a fresh uuid4, so
\* the code of a profile not yet created cannot be presented).
RefInputs == {NoRef, BogusRef} \cup {e \in Emails : profiles[e].exists}

\* UserProfile.objects.get(referral_code=ref) finds a row.
Resolves(ref) == ref \in Emails /\ profiles[ref].exists

\* google_id is unique=True: an INSERT with a google_id that a row holds fails.
GoogleIdTaken(g) == \E e \in Emails : profiles[e].exists /\ profiles[e].google_id = g

\* UserProfile.objects.create(user=user, google_id=g, credits=5).
Mutant_NewProfile(g) == [NoProfile EXCEPT !.exists = TRUE, !.google_id = g]
NewProfile(g) == [NoProfile EXCEPT !.exists = TRUE, !.google_id = g,
                                   !.credits = WelcomeBonus]

\* The welcome part of a referral: lines 201-203 (343-345).
Referred(p, ref) == [p EXCEPT !.referred_by = ref,
                              !.credits = @ + ReferralExtra,
                              !.total_credits_earned = ReferredTotal]

\* The referrer's part: lines 207-208 (348-349).
Mutant_ReferrerBonusApplied(p) == [p EXCEPT !.credits = @ + ReferralExtra,
                                            !.total_credits_earned = @ + ReferrerBonus]
ReferrerBonusApplied(p) == [p EXCEPT !.credits = @ + ReferrerBonus,
                                     !.total_credits_earned = @ + ReferrerBonus]

Entry(type, amount) == [type |-> type, amount |-> amount]

\* ------------------------------------------------------ distributed_login
\* Lines 123-194: the site lookup, authenticate(), and either the activity
\* upsert of an existing user or the creation of the user and its profile.
distributed_login(r, key, email, password, ref) ==
    /\ Free(r)
    /\ ref \in RefInputs
    /\ left' = left - 1
    /\ LET q == [NewReq("distributed_login", email, key) EXCEPT
                    !.password = password, !.ref = ref]
       IN  IF key = NoKey
           THEN Respond(r, q, "KeyRequired") /\ UNCHANGED dbVars
           ELSE IF ~SiteValid(key)
           THEN Respond(r, q, "InvalidSite") /\ UNCHANGED dbVars
           ELSE IF users[email].exists /\ users[email].password = password
           THEN IF ~profiles[email].exists
                THEN Respond(r, q, "ServerError") /\ UNCHANGED dbVars
                ELSE /\ TrackVisit(r, q, email, key)
                     /\ UNCHANGED <<users, profiles, ledger, userBooks>>
           ELSE IF users[email].exists
           THEN Respond(r, q, "InvalidCredentials") /\ UNCHANGED dbVars
           ELSE /\ users' = [users EXCEPT ![email] =
                                [exists |-> TRUE, password |-> password]]
                /\ IF GoogleIdTaken("")
                   THEN Respond(r, q, "ServerError") /\ UNCHANGED profiles
                   ELSE /\ profiles' = [profiles EXCEPT ![email] = NewProfile("")]
                        /\ req' = [req EXCEPT ![r] =
                              [q EXCEPT !.pc = "dl_bonus", !.is_new = TRUE,
                                        !.profile = NewProfile("")]]
                /\ UNCHANGED <<ledger, activity, userBooks>>
    /\ UNCHANGED <<siteActive, bookCost, cache, nextCode, now, ticks>>

\* Lines 196-204 and 226-245: the referral lookup, the save of the new profile
\* and, without a referrer, the welcome_bonus row.
distributed_login_bonus(r) ==
    /\ req[r].pc = "dl_bonus"
    /\ LET u == req[r].user
           ref == req[r].ref
           p == req[r].profile
       IN  IF ref # NoRef /\ Resolves(ref)
           THEN IF ref # u
                THEN /\ profiles' = [profiles EXCEPT ![u] = Referred(p, ref)]
                     /\ req' = [req EXCEPT ![r].pc = "dl_refsave",
                                           ![r].profile = Referred(p, ref),
                                           ![r].referrer = profiles[ref]]
                     /\ UNCHANGED ledger
                ELSE /\ req' = [req EXCEPT ![r].pc = "dl_act"]
                     /\ UNCHANGED <<profiles, ledger>>
           ELSE /\ profiles' = [profiles EXCEPT ![u] =
                                  [p EXCEPT !.total_credits_earned = WelcomeBonus]]
                /\ ledger' = [ledger EXCEPT ![u] =
                                  Append(@, Entry("welcome_bonus", WelcomeBonus))]
                /\ req' = [req EXCEPT ![r].pc = "dl_act",
                                      ![r].profile = [p EXCEPT
                                          !.total_credits_earned = WelcomeBonus]]
    /\ UNCHANGED <<users, activity, userBooks, siteActive, bookCost, cache,
                   nextCode, now, ticks, left>>

\* Lines 207-209: referrer.save() of the referrer object read at line 199.
distributed_login_refsave(r) ==
    /\ req[r].pc = "dl_refsave"
    /\ profiles' = [profiles EXCEPT ![req[r].ref] = ReferrerBonusApplied(req[r].referrer)]
    /\ req' = [req EXCEPT ![r].pc = "dl_reflog"]
    /\ UNCHANGED <<users, ledger, activity, userBooks, siteActive, bookCost, cache,
                   nextCode, now, ticks, left>>

\* Lines 212-225: the welcome_bonus and referral_bonus rows.
distributed_login_reflog(r) ==
    /\ req[r].pc = "dl_reflog"
    /\ ledger' = [ledger EXCEPT
                    ![req[r].user] = Append(@, Entry("welcome_bonus", ReferredTotal)),
                    ![req[r].ref] = Append(@, Entry("referral_bonus", ReferrerBonus))]
    /\ req' = [req EXCEPT ![r].pc = "dl_act"]
    /\ UNCHANGED <<users, profiles, activity, userBooks, siteActive, bookCost, cache,
                   nextCode, now, ticks, left>>

\* Lines 247-272: UserSiteActivity.objects.create and the response; a row that
\* exists makes the INSERT fail, and the handler answers 500.
distributed_login_activity(r) ==
    /\ req[r].pc = "dl_act"
    /\ IF activity[req[r].user][req[r].site] # 0
       THEN Respond(r, req[r], "ServerError") /\ UNCHANGED activity
       ELSE /\ activity' = [activity EXCEPT ![req[r].user][req[r].site] = 1]
            /\ Respond(r, req[r], "ok")
    /\ UNCHANGED <<users, profiles, ledger, userBooks, siteActive, bookCost, cache,
                   nextCode, now, ticks, left>>

\* ------------------------------------------------------- google_sso_login
\* The profile that holds google_id g (line 308).
Mutant_ByGoogleId(g) == {}
ByGoogleId(g) == {e \in Emails : profiles[e].exists /\ profiles[e].google_id = g}

\* The local profile object after line 317.
Mutant_Linked(p, g) == p
Linked(p, g) == [p EXCEPT !.google_id = g]

\* Lines 278-336: the site lookup, the token check, and the resolution of the
\* account by google_id, then by email (whose profile is read at line 315 and
\* saved by the next step), then by creating the user and profile.
google_sso_login(r, key, tok, ref) ==
    /\ Free(r)
    /\ ref \in RefInputs
    /\ left' = left - 1
    /\ LET q == [NewReq("google_sso_login", tok.email, key) EXCEPT
                    !.ref = ref, !.tok = tok]
       IN  IF key = NoKey
           THEN Respond(r, q, "BadRequest") /\ UNCHANGED dbVars
           ELSE IF ~SiteValid(key)
           THEN Respond(r, q, "InvalidSite") /\ UNCHANGED dbVars
           ELSE IF tok = InvalidToken
           THEN Respond(r, q, "InvalidToken") /\ UNCHANGED dbVars
           ELSE IF ByGoogleId(tok.sub) # {}
           THEN /\ TrackVisit(r, q, CHOOSE e \in ByGoogleId(tok.sub) : TRUE, key)
                /\ UNCHANGED <<users, profiles, ledger, userBooks>>
           ELSE IF users[tok.email].exists /\ profiles[tok.email].exists
           THEN /\ req' = [req EXCEPT ![r] =
                              [q EXCEPT !.pc = "gl_link",
                                        !.profile = Linked(profiles[tok.email], tok.sub)]]
                /\ UNCHANGED dbVars
           ELSE IF users[tok.email].exists
           THEN Respond(r, q, "ServerError") /\ UNCHANGED dbVars
           ELSE /\ users' = [users EXCEPT ![tok.email] =
                                [exists |-> TRUE, password |-> Unusable]]
                /\ profiles' = [profiles EXCEPT ![tok.email] = NewProfile(tok.sub)]
                /\ req' = [req EXCEPT ![r] =
                              [q EXCEPT !.pc = "gl_bonus", !.is_new = TRUE,
                                        !.profile = NewProfile(tok.sub)]]
                /\ UNCHANGED <<ledger, activity, userBooks>>
    /\ UNCHANGED <<siteActive, bookCost, cache, nextCode, now, ticks>>

\* Line 318: profile.save() of the profile read at line 315, with its new
\* google_id; the UPDATE fails when another row holds that google_id.  The
\* activity upsert of lines 370-375 follows.
google_sso_login_link(r) ==
    /\ req[r].pc = "gl_link"
    /\ LET u == req[r].user
           q == [req[r] EXCEPT !.profile = NoProfile]
       IN  IF \E e \in Emails \ {u} :
                   profiles[e].exists /\ profiles[e].google_id = req[r].profile.google_id
           THEN Respond(r, q, "ServerError") /\ UNCHANGED <<profiles, activity>>
           ELSE /\ profiles' = [profiles EXCEPT ![u] = req[r].profile]
                /\ TrackVisit(r, q, u, req[r].site)
    /\ UNCHANGED <<users, ledger, userBooks, siteActive, bookCost, cache,
                   nextCode, now, ticks, left>>

\* Lines 338-346 and 366-368: the referral lookup and the save of the new
\* profile; without a referral code nothing more is written.
google_sso_login_bonus(r) ==
    /\ req[r].pc = "gl_bonus"
    /\ LET u == req[r].user
           ref == req[r].ref
           p == req[r].profile
       IN  IF ref = NoRef
           THEN /\ req' = [req EXCEPT ![r].pc = "gl_act"]
                /\ UNCHANGED profiles
           ELSE IF Resolves(ref)
           THEN IF ref # u
                THEN /\ profiles' = [profiles EXCEPT ![u] = Referred(p, ref)]
                     /\ req' = [req EXCEPT ![r].pc = "gl_refsave",
                                           ![r].profile = Referred(p, ref),
                                           ![r].referrer = profiles[ref]]
                ELSE /\ req' = [req EXCEPT ![r].pc = "gl_act"]
                     /\ UNCHANGED profiles
           ELSE /\ profiles' = [profiles EXCEPT ![u] =
                                  [p EXCEPT !.total_credits_earned = WelcomeBonus]]
                /\ req' = [req EXCEPT ![r].pc = "gl_act",
                                      ![r].profile = [p EXCEPT
                                          !.total_credits_earned = WelcomeBonus]]
    /\ UNCHANGED <<users, ledger, activity, userBooks, siteActive, bookCost, cache,
                   nextCode, now, ticks, left>>

\* Lines 348-350: referrer.save() of the referrer object read at line 341.
google_sso_login_refsave(r) ==
    /\ req[r].pc = "gl_refsave"
    /\ profiles' = [profiles EXCEPT ![req[r].ref] = ReferrerBonusApplied(req[r].referrer)]
    /\ req' = [req EXCEPT ![r].pc = "gl_reflog"]
    /\ UNCHANGED <<users, ledger, activity, userBooks, siteActive, bookCost, cache,
                   nextCode, now, ticks, left>>

\* Lines 352-365: the welcome_bonus and referral_bonus rows.
google_sso_login_reflog(r) ==
    /\ req[r].pc = "gl_reflog"
    /\ ledger' = [ledger EXCEPT
                    ![req[r].user] = Append(@, Entry("welcome_bonus", ReferredTotal)),
                    ![req[r].ref] = Append(@, Entry("referral_bonus", ReferrerBonus))]
    /\ req' = [req EXCEPT ![r].pc = "gl_act"]
    /\ UNCHANGED <<users, profiles, activity, userBooks, siteActive, bookCost, cache,
                   nextCode, now, ticks, left>>

\* Lines 370-375: the activity upsert of a newly created account.
google_sso_login_activity(r) ==
    /\ req[r].pc = "gl_act"
    /\ TrackVisit(r, req[r], req[r].user, req[r].site)
    /\ UNCHANGED <<users, profiles, ledger, userBooks, siteActive, bookCost, cache,
                   nextCode, now, ticks, left>>

\* ------------------------------------------------------------ UserBookViewSet
\* Lines 92-94 (the create of the ModelViewSet): a UserBook row of the caller;
\* (user, book) is unique_together.
perform_create(r, u, b) ==
    /\ Free(r)
    /\ profiles[u].exists
    /\ left' = left - 1
    /\ LET q == [NewReq("perform_create", u, "") EXCEPT !.book = b]
       IN  IF userBooks[u][b] >= 0
           THEN Respond(r, q, "ServerError") /\ UNCHANGED userBooks
           ELSE /\ userBooks' = [userBooks EXCEPT ![u][b] = 0]
                /\ Respond(r, q, "ok")
    /\ UNCHANGED <<users, profiles, ledger, activity, siteActive, bookCost, cache,
                   nextCode, now, ticks>>

\* The balance covers the chapter cost (line 103).
Mutant_Affordable(p, cost) == TRUE
Affordable(p, cost) == p.credits >= cost

\* The local profile object after line 104.
Unlocked(p, cost) == [p EXCEPT !.credits = @ - cost]

\* Lines 99-103: the reads of the UserBook (one of the caller's own, by
\* get_queryset), its book and its profile, and the balance check.
unlock_chapter(r, u, b) ==
    /\ Free(r)
    /\ userBooks[u][b] >= 0
    /\ left' = left - 1
    /\ LET q == [NewReq("unlock_chapter", u, "") EXCEPT !.book = b]
       IN  IF Affordable(profiles[u], bookCost[b])
           THEN req' = [req EXCEPT ![r] =
                    [q EXCEPT !.pc = "uk_save",
                              !.profile = Unlocked(profiles[u], bookCost[b]),
                              !.count = userBooks[u][b] + 1]]
           ELSE Respond(r, q, "InsufficientBalance")
    /\ UNCHANGED <<dbVars, siteActive, bookCost, cache, nextCode, now, ticks>>

\* Lines 106-113: user_profile.save() and user_book.save().
unlock_chapter_save(r) ==
    /\ req[r].pc = "uk_save"
    /\ profiles' = [profiles EXCEPT ![req[r].user] = req[r].profile]
    /\ userBooks' = [userBooks EXCEPT ![req[r].user][req[r].book] = req[r].count]
    /\ Respond(r, req[r], "ok")
    /\ UNCHANGED <<users, ledger, activity, siteActive, bookCost, cache, nextCode,
                   now, ticks, left>>

\* ------------------------------------------------------- the handoff codes
\* cache.get(key): the entry, unless its timeout has passed.
CacheGet(c) ==
    IF c \in Codes /\ cache[c].present /\ now < cache[c].expires_at THEN cache[c]
    ELSE NoEntry

\* cache.set(key, data, timeout=300).
CacheSet(u, s) == [present |-> TRUE, user_id |-> u, target_site_id |-> s,
                   expires_at |-> now + CodeTTL]

\* BookSite.objects.get(domain=d, is_active=True) finds a row.
DomainValid(d) == d \in Sites /\ siteActive[d]

\* Lines 408-436: a fresh code for the caller and the target site.
generate_auth_code(r, u, target) ==
    /\ Free(r)
    /\ users[u].exists
    /\ nextCode <= MaxCodes
    /\ left' = left - 1
    /\ LET q == [NewReq("generate_auth_code", u, target) EXCEPT !.code = nextCode]
       IN  IF ~DomainValid(target)
           THEN Respond(r, [q EXCEPT !.code = 0], "UnknownSite")
                /\ UNCHANGED <<cache, nextCode>>
           ELSE IF ~profiles[u].exists
           THEN Respond(r, [q EXCEPT !.code = 0], "ServerError")
                /\ UNCHANGED <<cache, nextCode>>
           ELSE /\ cache' = [cache EXCEPT ![nextCode] = CacheSet(u, target)]
                /\ nextCode' = nextCode + 1
                /\ Respond(r, q, "ok")
    /\ UNCHANGED <<dbVars, siteActive, bookCost, now, ticks>>

\* The sites that get_cross_promo_sites links to (lines 505-507).
PromoSites(current) == {s \in Sites : siteActive[s] /\ s # current}

\* The sites S as the sequence in which the query returns them (by primary key).
RECURSIVE Ordered(_)
Ordered(S) ==
    IF S = {} THEN <<>>
    ELSE LET s == CHOOSE x \in S : \A y \in S : x = y \/ x = "s1"
         IN  <<s>> \o Ordered(S \ {s})

\* Lines 501-528: one fresh code for every active site but the current one.
get_cross_promo_sites(r, u, current) ==
    /\ Free(r)
    /\ users[u].exists
    /\ LET targets == Ordered(PromoSites(current))
           n == Len(targets)
       IN  /\ nextCode + n - 1 <= MaxCodes
           /\ cache' = [c \in Codes |->
                          IF c >= nextCode /\ c < nextCode + n
                          THEN CacheSet(u, targets[c - nextCode + 1])
                          ELSE cache[c]]
           /\ nextCode' = nextCode + n
    /\ left' = left - 1
    /\ Respond(r, NewReq("get_cross_promo_sites", u, current), "ok")
    /\ UNCHANGED <<dbVars, siteActive, bookCost, now, ticks>>

\* The codes a caller can present: one that was issued, or one that never was.
CodeInputs == {0} \cup {c \in Codes : c < nextCode}

\* The redemption is refused for the site (line 461).
Mutant_Mismatch(data, site) == FALSE
Mismatch(data, site) == data.target_site_id # site

\* Lines 442-462: the site lookup, cache.get and the target-site check.
exchange_auth_code(r, key, code) ==
    /\ Free(r)
    /\ code \in CodeInputs
    /\ left' = left - 1
    /\ LET q == [NewReq("exchange_auth_code", "", key) EXCEPT !.code = code]
           data == CacheGet(code)
       IN  IF key = NoKey THEN Respond(r, q, "BadRequest")
           ELSE IF ~SiteValid(key) THEN Respond(r, q, "InvalidSite")
           ELSE IF ~data.present THEN Respond(r, q, "InvalidOrExpiredCode")
           ELSE IF Mismatch(data, key) THEN Respond(r, q, "SiteMismatch")
           ELSE req' = Admit(r, [q EXCEPT !.pc = "ex_del", !.user = data.user_id],
                             Pending(r, "exchange_auth_code", "ex_del",
                                     data.user_id, code))
    /\ UNCHANGED <<dbVars, siteActive, bookCost, cache, nextCode, now, ticks>>

\* cache.delete(key) (line 465).
Mutant_CacheDelete(c) == cache
CacheDelete(c) == [cache EXCEPT ![c] = NoEntry]

\* Lines 464-478: cache.delete, the reads of the user and its profile, and
\* the activity upsert.
exchange_auth_code_delete(r) ==
    /\ req[r].pc = "ex_del"
    /\ cache' = CacheDelete(req[r].code)
    /\ IF users[req[r].user].exists /\ profiles[req[r].user].exists
       THEN TrackVisit(r, req[r], req[r].user, req[r].site)
       ELSE Respond(r, req[r], "NotFound") /\ UNCHANGED activity
    /\ UNCHANGED <<users, profiles, ledger, userBooks, siteActive, bookCost,
                   nextCode, now, ticks, left>>

\* ------------------------------------------------------------ environment
\* Time passes.
Tick ==
    /\ ticks < MaxTicks
    /\ ticks' = ticks + 1
    /\ now' = now + TickStep
    /\ UNCHANGED <<dbVars, siteActive, bookCost, cache, nextCode, req, left>>

\* The administrator edits is_active of a site (admin.py, lines 20-23); the
\* edits count against the requests of a behaviour.
set_is_active(s, b) ==
    /\ left > 0
    /\ siteActive[s] # b
    /\ siteActive' = [siteActive EXCEPT ![s] = b]
    /\ left' = left - 1
    /\ UNCHANGED <<dbVars, bookCost, cache, nextCode, now, ticks, req>>

\* ---------------------------------------------------------- specifications
LedgerNext ==
    \/ \E r \in Slots, u \in Emails, key \in ApiKeys, amount \in Amounts, type \in Types :
          update_credits(r, u, key, amount, type)
    \/ \E r \in Slots : update_credits_save(r)
    \/ \E r \in Slots : update_credits_log(r)
    \/ \E r \in Slots, key \in ApiKeys, email \in Emails, password \in Passwords,
          ref \in Emails \cup {NoRef, BogusRef} :
          distributed_login(r, key, email, password, ref)
    \/ \E r \in Slots : distributed_login_bonus(r)
    \/ \E r \in Slots : distributed_login_refsave(r)
    \/ \E r \in Slots : distributed_login_reflog(r)
    \/ \E r \in Slots : distributed_login_activity(r)
    \/ \E r \in Slots, key \in ApiKeys, tok \in Tokens \cup {InvalidToken},
          ref \in Emails \cup {NoRef, BogusRef} :
          google_sso_login(r, key, tok, ref)
    \/ \E r \in Slots : google_sso_login_link(r)
    \/ \E r \in Slots : google_sso_login_bonus(r)
    \/ \E r \in Slots : google_sso_login_refsave(r)
    \/ \E r \in Slots : google_sso_login_reflog(r)
    \/ \E r \in Slots : google_sso_login_activity(r)
    \/ \E r \in Slots : activity_save(r)
    \/ \E r \in Slots, u \in Emails, b \in Books : perform_create(r, u, b)
    \/ \E r \in Slots, u \in Emails, b \in Books : unlock_chapter(r, u, b)
    \/ \E r \in Slots : unlock_chapter_save(r)

HandoffNext ==
    \/ \E r \in Slots, u \in Emails, target \in ApiKeys : generate_auth_code(r, u, target)
    \/ \E r \in Slots, u \in Emails, current \in ApiKeys : get_cross_promo_sites(r, u, current)
    \/ \E r \in Slots, key \in ApiKeys, code \in {0} \cup Codes :
          exchange_auth_code(r, key, code)
    \/ \E r \in Slots : exchange_auth_code_delete(r)
    \/ Tick
    \/ \E s \in Sites, b \in BOOLEAN : set_is_active(s, b)

\* The password login of SpecHandoff: a valid site credential, no referral.
HandoffLogin ==
    \E r \in Slots, key \in Sites, email \in Emails :
        distributed_login(r, key, email, "p", NoRef)

Next == LedgerNext

\* The operations on the accounts, the ledger and the activity rows.
Spec == Init /\ [][Next]_vars

\* The handoff protocol: the operations on the code store and the site
\* registry, with the password login that creates their accounts.  The other
\* operations of Spec read and write neither.
InitHandoff == InitTables /\ left = MaxHandoffOps
NextHandoff ==
    \/ HandoffLogin
    \/ \E r \in Slots : distributed_login_bonus(r)
    \/ \E r \in Slots : distributed_login_activity(r)
    \/ \E r \in Slots : activity_save(r)
    \/ HandoffNext
SpecHandoff == InitHandoff /\ [][NextHandoff]_vars

\* ------------------------------------------------------------ the claims
Quiescent == \A r \in Slots : req[r].pc \in {"idle", "done"}

\* The step admits a request of operation op into slot r.
Admitted(r, op) ==
    /\ Free(r)
    /\ left' = left - 1
    /\ siteActive' = siteActive
    /\ req'[r].op = op

\* The step is one of the request that slot r holds.
StepOf(r, pc) == req[r].pc = pc /\ req'[r].pc # pc

Balanced(p) == p.credits = p.total_credits_earned - p.total_credits_spent

\* C1: whenever no request is in flight, every account has
\* balance = lifetime_earned - lifetime_spent.
C1_BalanceIsEarnedMinusSpent ==
    Quiescent => \A e \in Emails : profiles[e].exists => Balanced(profiles[e])

\* Two requests of operation op that raced on the same row and both ended.
RacedPair(r1, r2, op) ==
    /\ r1 # r2
    /\ req[r1].op = op /\ req[r2].op = op
    /\ req[r1].pc = "done" /\ req[r2].pc = "done"
    /\ req[r1].raced /\ req[r2].raced
    /\ req[r1].user = req[r2].user

OneOkOneRefused(r1, r2, refusal) ==
    \/ req[r1].res = "ok" /\ req[r2].res = refusal
    \/ req[r2].res = "ok" /\ req[r1].res = refusal

\* C2: two concurrent spends on one account that read the same balance, each
\* affordable and together above it, end with exactly one success and one
\* InsufficientBalance, and the balance is the one read minus one spend.
C2_ConcurrentSpendsOneSucceeds ==
    \A r1, r2 \in Slots :
        ( /\ RacedPair(r1, r2, "update_credits")
          /\ req[r1].type = "spent" /\ req[r2].type = "spent"
          /\ req[r1].seen = req[r2].seen
          /\ abs(req[r1].amount) + abs(req[r2].amount) > req[r1].seen )
        => /\ OneOkOneRefused(r1, r2, "InsufficientBalance")
           /\ profiles[req[r1].user].credits \in
                 {req[r1].seen - abs(req[r1].amount), req[r1].seen - abs(req[r2].amount)}

\* C3: two concurrent redemptions of the same valid code by its destination
\* site end with exactly one success and one InvalidOrExpiredCode.
C3_ConcurrentRedemptionsOneSucceeds ==
    \A r1, r2 \in Slots :
        (RacedPair(r1, r2, "exchange_auth_code") /\ req[r1].code = req[r2].code)
        => OneOkOneRefused(r1, r2, "InvalidOrExpiredCode")

\* C4: a spend request of a valid site whose amount exceeds the balance of the
\* account at the moment the request reads it ends at once with
\* InsufficientBalance, and it changes no profile, ledger row or other table.
C4_OverspendRefused ==
    [][\A r \in Slots :
          ( /\ Admitted(r, "update_credits")
            /\ req'[r].type = "spent"
            /\ SiteValid(req'[r].site)
            /\ profiles[req'[r].user].exists
            /\ req'[r].amount > profiles[req'[r].user].credits )
          => /\ req'[r].pc = "done"
             /\ req'[r].res = "InsufficientBalance"
             /\ UNCHANGED dbVars]_vars

C4_Witness ==
    \E r \in Slots :
        /\ req[r].op = "update_credits" /\ req[r].type = "spent"
        /\ req[r].pc = "done" /\ req[r].res = "InsufficientBalance"
        /\ req[r].amount > profiles[req[r].user].credits
        /\ ledger[req[r].user] = <<[type |-> "welcome_bonus", amount |-> 5]>>

Issued(c) == c \in Codes /\ c < nextCode
Redeemable(c) == CacheGet(c).present

\* C5: a code that was issued and is no longer redeemable (redeemed or timed
\* out) never becomes redeemable again, a successful redemption leaves its
\* code unredeemable, and every redemption attempt that a valid site makes on
\* such a code fails with InvalidOrExpiredCode.
C5_NoRevival ==
    [][\A c \in Codes :
          /\ (Issued(c) /\ ~Redeemable(c)) => ~Redeemable(c)'
          /\ \A r \in Slots :
                /\ ( /\ req[r].op = "exchange_auth_code" /\ req[r].code = c
                     /\ req[r].pc # "done"
                     /\ req'[r].pc = "done" /\ req'[r].res = "ok" )
                   => ~Redeemable(c)'
                /\ ( /\ Issued(c) /\ ~Redeemable(c)
                     /\ Admitted(r, "exchange_auth_code")
                     /\ req'[r].code = c /\ SiteValid(req'[r].site) )
                   => (req'[r].pc = "done" /\ req'[r].res = "InvalidOrExpiredCode")
      ]_vars

\* An attempt on a code that a redemption had deleted was refused.
C5_Witness ==
    \E r \in Slots :
        /\ req[r].op = "exchange_auth_code" /\ req[r].pc = "done"
        /\ req[r].res = "InvalidOrExpiredCode"
        /\ Issued(req[r].code)
        /\ ~cache[req[r].code].present

\* An attempt on a code whose 300 seconds had passed was refused.
C5_ExpiredWitness ==
    \E r \in Slots :
        /\ req[r].op = "exchange_auth_code" /\ req[r].pc = "done"
        /\ req[r].res = "InvalidOrExpiredCode"
        /\ Issued(req[r].code)
        /\ cache[req[r].code].present
        /\ now >= cache[req[r].code].expires_at

\* C6 as claimed: a redemption refused with SiteMismatch consumes the code.
C6_MismatchConsumesCode ==
    [][\A r \in Slots, c \in Codes :
          ( /\ Admitted(r, "exchange_auth_code") /\ req'[r].code = c
            /\ req'[r].res = "SiteMismatch" )
          => ~Redeemable(c)']_vars

\* C6 as amended: a redemption of a redeemable code by a valid site other than
\* its destination fails with SiteMismatch and leaves the code store as it
\* was, so that the code stays redeemable; the same attempt by the destination
\* site passes the checks.
C6_MismatchKeepsCode ==
    [][\A r \in Slots, c \in Codes :
          ( /\ Admitted(r, "exchange_auth_code") /\ req'[r].code = c
            /\ SiteValid(req'[r].site)
            /\ Redeemable(c) )
          => IF cache[c].target_site_id # req'[r].site
             THEN /\ req'[r].pc = "done" /\ req'[r].res = "SiteMismatch"
                  /\ cache' = cache
                  /\ Redeemable(c)'
             ELSE req'[r].pc = "ex_del"]_vars

C6_Witness ==
    \E r \in Slots :
        /\ req[r].op = "exchange_auth_code" /\ req[r].pc = "done"
        /\ req[r].res = "SiteMismatch"
        /\ Redeemable(req[r].code)

Welcome(n) == [type |-> "welcome_bonus", amount |-> n]

\* The entries that a step appends to the ledger of account e.
Appended(e) == SubSeq(ledger'[e], Len(ledger[e]) + 1, Len(ledger'[e]))

\* C7: a password login that provisions an account without a referral code
\* finds no ledger row of the account, writes balance 5, lifetime_earned 5 and
\* lifetime_spent 0, appends exactly one ledger row, welcome_bonus 5, and
\* writes no other profile or ledger row.
C7_PlainWelcome ==
    [][\A r \in Slots :
          LET u == req'[r].user IN
          /\ (Admitted(r, "distributed_login") /\ req'[r].pc = "dl_bonus")
             => /\ ledger[u] = <<>>
                /\ profiles'[u].credits = 5
                /\ profiles'[u].total_credits_spent = 0
          /\ (req[r].op = "distributed_login" /\ req[r].ref = NoRef)
             => /\ StepOf(r, "dl_bonus")
                   => /\ profiles'[u].credits = 5
                      /\ profiles'[u].total_credits_earned = 5
                      /\ profiles'[u].total_credits_spent = 0
                      /\ Appended(u) = <<Welcome(5)>>
                      /\ \A e \in Emails \ {u} :
                            profiles'[e] = profiles[e] /\ ledger'[e] = ledger[e]
                      /\ req'[r].pc = "dl_act"
                /\ StepOf(r, "dl_act") => UNCHANGED <<profiles, ledger>>
      ]_vars

C7_Witness ==
    \E r \in Slots :
        /\ req[r].op = "distributed_login" /\ req[r].ref = NoRef
        /\ req[r].pc = "done" /\ req[r].res = "ok" /\ req[r].is_new
        /\ profiles[req[r].user].credits = 5
        /\ profiles[req[r].user].total_credits_earned = 5
        /\ profiles[req[r].user].total_credits_spent = 0
        /\ ledger[req[r].user] = <<Welcome(5)>>

Referral(n) == [type |-> "referral_bonus", amount |-> n]

\* C8: a password login that provisions an account with a referral code of
\* another account finds no ledger row of the new account, writes balance 10
\* for it and appends for it exactly one row, welcome_bonus 10; it raises the balance of the referrer,
\* as the login read it, by 10 and appends for the referrer exactly one row,
\* referral_bonus 10.  (The referrer's row written by another request between
\* the login's read and its save is the race of C14.)
C8_ReferredWelcome ==
    [][\A r \in Slots :
          LET u == req[r].user
              ref == req[r].ref
          IN
          /\ ( /\ Admitted(r, "distributed_login") /\ req'[r].pc = "dl_bonus"
               /\ req'[r].ref \in Emails )
             => /\ ledger[req'[r].user] = <<>>
                /\ req'[r].ref # req'[r].user
          /\ (req[r].op = "distributed_login" /\ ref \in Emails)
              => /\ StepOf(r, "dl_bonus")
                    => /\ profiles'[u].credits = 10
                       /\ profiles'[u].total_credits_earned = 10
                       /\ profiles'[u].total_credits_spent = 0
                       /\ profiles'[u].referred_by = ref
                       /\ UNCHANGED ledger
                       /\ req'[r].pc = "dl_refsave"
                 /\ (StepOf(r, "dl_refsave") /\ profiles[ref] = req[r].referrer)
                    => /\ profiles'[ref].credits = profiles[ref].credits + 10
                       /\ profiles'[u] = profiles[u]
                       /\ UNCHANGED ledger
                 /\ StepOf(r, "dl_reflog")
                    => /\ Appended(u) = <<Welcome(10)>>
                       /\ Appended(ref) = <<Referral(10)>>
                       /\ UNCHANGED profiles
                 /\ StepOf(r, "dl_act") => UNCHANGED <<profiles, ledger>>
      ]_vars

C8_Witness ==
    \E r \in Slots :
        LET u == req[r].user
            ref == req[r].ref
        IN  /\ req[r].op = "distributed_login" /\ ref \in Emails
            /\ req[r].pc = "done" /\ req[r].res = "ok" /\ req[r].is_new
            /\ profiles[u].credits = 10
            /\ ledger[u] = <<Welcome(10)>>
            /\ profiles[ref].credits = 15
            /\ ledger[ref] = <<Welcome(5), Referral(10)>>

\* C9: a federated login that provisions an account without a referral code
\* writes balance 5 and lifetime_earned 5 and appends exactly one ledger row,
\* welcome_bonus 5.
C9_FederatedWelcome ==
    [][\A r \in Slots :
          LET u == req[r].user IN
          ( /\ req[r].op = "google_sso_login" /\ req[r].ref = NoRef
            /\ StepOf(r, "gl_bonus") )
          => /\ profiles'[u].credits = 5
             /\ profiles'[u].total_credits_earned = 5
             /\ Appended(u) = <<Welcome(5)>>]_vars

\* C10: a login of either path that provisions an account with a referral
\* code that resolves to no account goes on to succeed, writes balance 5 and
\* lifetime_earned 5, appends exactly one ledger row, welcome_bonus 5, and
\* changes the balance of no other account.
C10_UnresolvedReferral ==
    [][\A r \in Slots :
          LET u == req[r].user IN
          ( /\ req[r].ref # NoRef /\ ~Resolves(req[r].ref)
            /\ StepOf(r, "dl_bonus") \/ StepOf(r, "gl_bonus") )
          => /\ profiles'[u].credits = 5
             /\ profiles'[u].total_credits_earned = 5
             /\ Appended(u) = <<Welcome(5)>>
             /\ \A e \in Emails \ {u} : profiles'[e].credits = profiles[e].credits
             /\ req'[r].pc \in {"dl_act", "gl_act"}]_vars

EarningKinds == {"earned", "welcome_bonus", "referral_bonus"}

\* The sum over the ledger rows l of the amounts of the earning kinds
\* (earning = TRUE) or of the magnitudes of the spent rows.
RECURSIVE KindSum(_, _)
KindSum(l, earning) ==
    IF l = <<>> THEN 0
    ELSE LET e == Head(l)
             n == IF (e.type \in EarningKinds) # earning THEN 0
                  ELSE IF earning THEN e.amount ELSE abs(e.amount)
         IN  n + KindSum(Tail(l), earning)

\* C11: whenever no request is in flight, the earning rows of every account
\* sum to its lifetime_earned and the magnitudes of its spent rows sum to its
\* lifetime_spent.
C11_LedgerSumsMatchLifetime ==
    Quiescent =>
        \A e \in Emails : profiles[e].exists =>
            /\ KindSum(ledger[e], TRUE) = profiles[e].total_credits_earned
            /\ KindSum(ledger[e], FALSE) = profiles[e].total_credits_spent

\* The amount that the kind resolves: minus the magnitude for spent, plus the
\* magnitude for every other kind.
Signed(type, amount) == IF type = "spent" THEN -abs(amount) ELSE abs(amount)

\* C12: the step that ends a successful update_credits call appends exactly
\* one ledger row to the account, of the kind of the call and with the signed
\* amount that the kind resolves, whatever the sign of the amount sent.
C12_SignedLedgerEntry ==
    [][\A r \in Slots :
          (req[r].op = "update_credits" /\ StepOf(r, "uc_log"))
          => /\ req'[r].res = "ok"
             /\ Appended(req[r].user) =
                   <<Entry(req[r].type, Signed(req[r].type, req[r].amount))>>
             /\ \A e \in Emails \ {req[r].user} : ledger'[e] = ledger[e]]_vars

\* The balance and the lifetime counters of a profile.
Counters(p) == <<p.credits, p.total_credits_earned, p.total_credits_spent>>

\* C13: a step of an update_credits request writes the balance or the
\* lifetime counters of its account exactly when it appends the ledger row,
\* so that no state shows the mutation without its row.
C13_MutationAtomicWithLedger ==
    [][\A r \in Slots :
          LET u == req[r].user IN
          (req[r].op = "update_credits" /\ (StepOf(r, "uc_save") \/ StepOf(r, "uc_log")))
          => (Counters(profiles'[u]) # Counters(profiles[u])
                 <=> Appended(u) # <<>>)]_vars

\* Profile q is profile p with n more credits and n more lifetime_earned.
Raised(p, q, n) ==
    /\ q.credits = p.credits + n
    /\ q.total_credits_earned = p.total_credits_earned + n

\* C14: every earning mutation adds its amount to the balance and the
\* lifetime_earned that are stored when it writes: the save of an earning
\* update_credits call adds the magnitude of its amount, and the save of a
\* referrer adds the referral bonus of 10.  (Then two concurrent mutations of
\* a and b leave both values at their initial value plus a + b.)
C14_NoLostUpdate ==
    [][\A r \in Slots :
          LET u == req[r].user
              ref == req[r].ref
          IN
          /\ ( /\ req[r].op = "update_credits" /\ req[r].type # "spent"
               /\ StepOf(r, "uc_save") )
             => Raised(profiles[u], profiles'[u], abs(req[r].amount))
          /\ (StepOf(r, "dl_refsave") \/ StepOf(r, "gl_refsave"))
             => Raised(profiles[ref], profiles'[ref], ReferrerBonus)]_vars

\* C15: no step lowers the visit counter of an (account, site) activity row.
\* (The table is unique on (account, site), so it holds one counter per pair.)
C15_VisitsNeverDecrease ==
    [][\A u \in Emails, s \in Sites : activity'[u][s] >= activity[u][s]]_vars

\* C16: a federated login of a valid site whose token carries the subject id
\* of an existing account resolves to that account: it creates no user and no
\* profile, changes no profile (no federated id) and no ledger row, and goes
\* on to the activity upsert for the account that holds the subject id,
\* whatever account the email of the token matches.
C16_SubjectIdTakesPrecedence ==
    [][\A r \in Slots :
          ( /\ Admitted(r, "google_sso_login")
            /\ SiteValid(req'[r].site)
            /\ req'[r].tok # InvalidToken
            /\ GoogleIdTaken(req'[r].tok.sub) )
          => /\ UNCHANGED <<users, profiles, ledger>>
             /\ profiles[req'[r].user].exists
             /\ profiles[req'[r].user].google_id = req'[r].tok.sub
             /\ ~req'[r].is_new
             /\ \/ req'[r].pc = "act_save"
                \/ req'[r].pc = "done" /\ req'[r].res = "ok"]_vars

\* A federated login ended for the account of the subject id while the email
\* of its token is that of another account, one without a federated link.
C16_Witness ==
    \E r \in Slots :
        LET t == req[r].tok IN
        /\ req[r].op = "google_sso_login" /\ req[r].pc = "done" /\ req[r].res = "ok"
        /\ ~req[r].is_new
        /\ t # InvalidToken /\ t.email # req[r].user
        /\ profiles[req[r].user].google_id = t.sub
        /\ profiles[t.email].exists /\ profiles[t.email].google_id = ""
        /\ users[t.email].password = "p"

\* authenticate(username=email, password=password) returns no user.
VerificationFails(email, password) ==
    ~(users[email].exists /\ users[email].password = password)

\* C17: a password login of a valid site whose credential verification fails,
\* because the email is unknown or because the password is wrong, ends at
\* once with InvalidCredentials and creates or changes no user, profile,
\* ledger row or activity row.
C17_UniformInvalidCredentials ==
    [][\A r \in Slots :
          ( /\ Admitted(r, "distributed_login")
            /\ SiteValid(req'[r].site)
            /\ VerificationFails(req'[r].user, req'[r].password) )
          => /\ req'[r].pc = "done"
             /\ req'[r].res = "InvalidCredentials"
             /\ UNCHANGED dbVars]_vars

\* C18: the activity tracking of a login or of a handoff redemption never
\* makes the request fail: the step that tracks the visit of a newly
\* provisioned account, and the save of an existing activity row, end the
\* request with success for the resolved account.
C18_TrackingNeverAborts ==
    [][\A r \in Slots :
          /\ StepOf(r, "dl_act")
             => (req'[r].pc = "done" /\ req'[r].res = "ok")
          /\ StepOf(r, "gl_act")
             => \/ req'[r].pc = "act_save"
                \/ req'[r].pc = "done" /\ req'[r].res = "ok"
          /\ StepOf(r, "act_save")
             => (req'[r].pc = "done" /\ req'[r].res = "ok")]_vars

\* C19: the save of a successful unlock_chapter lowers the balance of the
\* account by the chapter cost of the book, raises its lifetime_spent by the
\* same amount, appends exactly one spent row to its ledger and raises the
\* unlocked-chapter count by one; an unlock of an account whose balance is
\* below the cost ends at once with InsufficientBalance and writes nothing.
C19_UnlockThroughLedger ==
    [][\A r \in Slots :
          LET u == req[r].user
              b == req[r].book
          IN
          /\ (req[r].op = "unlock_chapter" /\ StepOf(r, "uk_save"))
             => /\ req'[r].res = "ok"
                /\ profiles'[u].credits = profiles[u].credits - bookCost[b]
                /\ profiles'[u].total_credits_spent =
                      profiles[u].total_credits_spent + bookCost[b]
                /\ Len(Appended(u)) = 1
                /\ Appended(u)[1].type = "spent"
                /\ abs(Appended(u)[1].amount) = bookCost[b]
                /\ userBooks'[u][b] = userBooks[u][b] + 1
          /\ Admitted(r, "unlock_chapter")
             => IF req'[r].pc = "uk_save"
                THEN profiles[req'[r].user].credits >= bookCost[req'[r].book]
                ELSE /\ req'[r].pc = "done"
                     /\ req'[r].res = "InsufficientBalance"
                     /\ UNCHANGED dbVars]_vars

\* ------------------------------------------------ the site credential checks
\* Requests admitted in one behaviour of SpecSites.
MaxSiteOps == 3

\* The operations that authenticate the calling site by its X-API-Key header,
\* each with any credential (a key of a site, a key of no site, no key), next
\* to the administrator's edits of is_active and the issue of handoff codes.
SitesNext ==
    \/ \E r \in Slots, key \in Credentials, email \in Emails :
          distributed_login(r, key, email, "p", NoRef)
    \/ \E r \in Slots : distributed_login_bonus(r)
    \/ \E r \in Slots : distributed_login_activity(r)
    \/ \E r \in Slots, key \in Credentials, tok \in Tokens :
          google_sso_login(r, key, tok, NoRef)
    \/ \E r \in Slots : google_sso_login_link(r)
    \/ \E r \in Slots : google_sso_login_bonus(r)
    \/ \E r \in Slots : google_sso_login_activity(r)
    \/ \E r \in Slots : activity_save(r)
    \/ \E r \in Slots, u \in Emails, key \in Credentials :
          update_credits(r, u, key, 3, "earned")
    \/ \E r \in Slots : update_credits_save(r)
    \/ \E r \in Slots : update_credits_log(r)
    \/ \E r \in Slots, u \in Emails, target \in Sites : generate_auth_code(r, u, target)
    \/ \E r \in Slots, key \in Credentials, code \in {0} \cup Codes :
          exchange_auth_code(r, key, code)
    \/ \E r \in Slots : exchange_auth_code_delete(r)
    \/ \E s \in Sites, b \in BOOLEAN : set_is_active(s, b)

InitSites == InitTables /\ left = MaxSiteOps
SpecSites == InitSites /\ [][SitesNext]_vars

SiteOps == {"distributed_login", "google_sso_login", "update_credits",
            "exchange_auth_code"}

\* C20: a password login, federated login, update_credits call or handoff
\* redemption whose site credential is missing, is the key of no site, or is
\* the key of a site that is inactive when the request arrives is rejected at
\* once and changes no user, profile, ledger row, activity row or stored
\* handoff code.
C20_InvalidSiteRejected ==
    [][\A r \in Slots, op \in SiteOps :
          ( /\ Admitted(r, op)
            /\ req'[r].site \notin Sites \/ ~siteActive[req'[r].site] )
          => /\ req'[r].pc = "done"
             /\ req'[r].res \in {"KeyRequired", "BadRequest", "InvalidSite"}
             /\ UNCHANGED <<dbVars, cache>>]_vars

\* A code that was issued for a site while the site was active, and that the
\* cache still holds, was refused to that site after the site became inactive.
C20_Witness ==
    \E r \in Slots :
        LET c == req[r].code IN
        /\ req[r].op = "exchange_auth_code" /\ req[r].pc = "done"
        /\ req[r].res = "InvalidSite"
        /\ req[r].site \in Sites /\ ~siteActive[req[r].site]
        /\ Issued(c) /\ Redeemable(c)
        /\ cache[c].target_site_id = req[r].site

\* C21: every login or handoff redemption that ends with success after its
\* activity tracking raised the visit counter of its (account, site) row by
\* exactly one: the step that creates the row stores 1, and the save of an
\* existing row stores one more than the counter held just before the save
\* (so that the counter is the number of such operations, also when two of
\* them run concurrently).
C21_VisitsCountOperations ==
    [][\A r \in Slots :
          LET u == req[r].user
              s == req[r].site
          IN
          /\ (StepOf(r, "act_save") /\ req'[r].res = "ok")
             => activity'[u][s] = activity[u][s] + 1
          /\ ( /\ StepOf(r, "dl_act") \/ StepOf(r, "gl_act")
               /\ req'[r].pc = "done" /\ req'[r].res = "ok" )
             => (activity[u][s] = 0 /\ activity'[u][s] = 1)]_vars

\* C22: no step lowers the lifetime_earned or the lifetime_spent of an
\* account.
C22_LifetimeCountersMonotone ==
    [][\A e \in Emails :
          /\ profiles'[e].total_credits_earned >= profiles[e].total_credits_earned
          /\ profiles'[e].total_credits_spent >= profiles[e].total_credits_spent]_vars

C24_EmailFallbackLinks ==
    [][\A r \in Slots :
          LET u == req[r].user
              t == req'[r].tok
          IN
          /\ ( /\ Admitted(r, "google_sso_login")
               /\ req'[r].site \in Sites /\ siteActive[req'[r].site]
               /\ t # InvalidToken
               /\ ~GoogleIdTaken(t.sub)
               /\ users[t.email].exists /\ profiles[t.email].exists )
             => /\ req'[r].pc = "gl_link"
                /\ req'[r].user = t.email
                /\ ~req'[r].is_new
                /\ req'[r].profile = [profiles[t.email] EXCEPT !.google_id = t.sub]
                /\ UNCHANGED dbVars
          /\ (StepOf(r, "gl_link") /\ ~GoogleIdTaken(req[r].tok.sub))
             => /\ profiles' = [profiles EXCEPT ![u] = req[r].profile]
                /\ profiles'[u].google_id = req[r].tok.sub
                /\ UNCHANGED <<users, ledger>>
                /\ ~req'[r].is_new
                /\ \/ req'[r].pc = "act_save"
                   \/ req'[r].pc = "done" /\ req'[r].res = "ok"]_vars

\* A federated login ended for an account that a password login had created:
\* the account holds the subject id of the token, its balance and its ledger
\* are those of the password provisioning, and no other account exists.
C24_Witness ==
    \E r \in Slots :
        LET u == req[r].user IN
        /\ req[r].op = "google_sso_login" /\ req[r].pc = "done" /\ req[r].res = "ok"
        /\ ~req[r].is_new
        /\ req[r].tok.email = u /\ req[r].ref \in {BogusRef, NoRef}
        /\ users[u].password = "p"
        /\ profiles[u].google_id = req[r].tok.sub
        /\ profiles[u].credits = WelcomeBonus
        /\ ledger[u] = <<Welcome(WelcomeBonus)>>
        /\ \A e \in Emails \ {u} : ~users[e].exists /\ ~profiles[e].exists

\* C25: a password login of a valid site with an email that no user holds
\* creates the user and its profile and goes on with the provisioning,
\* however many profiles without a federated id exist.
C25_SecondPasswordAccount ==
    [][\A r \in Slots :
          ( /\ Admitted(r, "distributed_login")
            /\ SiteValid(req'[r].site)
            /\ ~users[req'[r].user].exists )
          => /\ users'[req'[r].user].exists
             /\ profiles'[req'[r].user].exists
             /\ req'[r].pc = "dl_bonus"]_vars

\* C26: in every reachable state every user has a profile (and every profile
\* its user), so that no provisioning attempt leaves a user without a profile.
C26_UserHasProfile ==
    \A e \in Emails : users[e].exists <=> profiles[e].exists

\* C27: no step changes the federated id of a profile that holds a subject id.
C27_LinkIsPermanent ==
    [][\A e \in Emails :
          (profiles[e].exists /\ profiles[e].google_id # "")
          => profiles'[e].google_id = profiles[e].google_id]_vars
====
